---- MODULE Spec2Model ----
(***************************************************************************)
(* A model of the scrabble helper: WordScrabbleCalculator and              *)
(* WordScrabbleHelper (src/word_scrabble.py) over WordSet and              *)
(* WordSetHelper (src/word_sets.py).                                       *)
(*                                                                         *)
(* A Python str is a sequence of character codes (ASCII), so that the      *)
(* order of sorted(), the class [a-z] and string.punctuation are the       *)
(* code's.  A Python list is a sequence, a set is a set.  The iteration    *)
(* order of a Python set is not defined by the language: it is a sequence  *)
(* enumerating the set, chosen nondeterministically.                       *)
(***************************************************************************)
EXTENDS Integers, Sequences, FiniteSets, TLC

VARIABLES
    word_set,      \* WordSet.word_set: the dictionary, a set of str
    set_order,     \* the order in which Python iterates word_set
    arg,           \* the argument of the call under way: a record
    word,          \* WordScrabbleCalculator.word: the tiles held
    pc,            \* where the engine or the running call stands
    ret,           \* what the finished call returned or raised: a record
    alternatives,  \* get_alternative_words: the local list `alternatives`
    search_index,  \* get_alternative_words: position in search_order (1-based)
    found          \* get_alternative_words: words of the running search not yet looped over

vars == <<word_set, set_order, arg, word, pc, ret, alternatives, search_index, found>>

----------------------------------------------------------------------------
(* Characters *)

\* ' ', the blank tile (word_scrabble.py:17, :89).
Blank == 32

\* A few named characters, by ASCII code.
Chr == [a |-> 97, b |-> 98, c |-> 99, d |-> 100, z |-> 122,
        A |-> 65, zero |-> 48, bang |-> 33, tab |-> 9]

\* string.ascii_lowercase, string.digits, string.punctuation.
ascii_lowercase == 97..122
digits == 48..57
punctuation == (33..47) \cup (58..64) \cup (91..96) \cup (123..126)
ascii_uppercase == 65..90

\* The values of letter_values, 'a' to 'z'.
LetterValueTable ==
    << 1, 3, 3, 2, 1, 4, 2, 4, 1, 8, 5, 1, 3,
       1, 1, 3, 10, 1, 1, 1, 1, 4, 4, 8, 4, 10 >>

letter_values ==
    [ch \in ascii_lowercase \cup {Blank} |->
        IF ch = Blank THEN 0 ELSE LetterValueTable[ch - 96]]

----------------------------------------------------------------------------
(* Sequences and Python's built-ins *)

Range(s) == {s[i] : i \in DOMAIN s}

Min(x, y) == IF x <= y THEN x ELSE y
Max(x, y) == IF x >= y THEN x ELSE y

\* str.lower().
Lower(s) == [i \in DOMAIN s |-> IF s[i] \in ascii_uppercase THEN s[i] + 32 ELSE s[i]]

\* str.count(ch).
Count(s, ch) == Cardinality({i \in DOMAIN s : s[i] = ch})

\* s[i:j] of Python for 0 <= i, 0 <= j (0-based, j exclusive, clipped).
Slice(s, i, j) ==
    LET lo == Min(i, Len(s))
        hi == Min(j, Len(s))
    IN  IF hi <= lo THEN <<>> ELSE SubSeq(s, lo + 1, hi)

\* A Python index of a slice, negative counting from the end, clipped.
Clip(s, i) == IF i < 0 THEN Max(Len(s) + i, 0) ELSE Min(i, Len(s))

\* s[:j] and s[i:] of Python for any integers.
SliceTo(s, j) == Slice(s, 0, Clip(s, j))
SliceFrom(s, i) == Slice(s, Clip(s, i), Len(s))

\* The str order of Python: lexicographic by character code.
RECURSIVE StrLess(_, _)
StrLess(s, t) ==
    IF Len(t) = 0 THEN FALSE
    ELSE IF Len(s) = 0 THEN TRUE
    ELSE IF s[1] # t[1] THEN s[1] < t[1]
    ELSE StrLess(Tail(s), Tail(t))

\* Every sequence that enumerates the set S once: the orders in which
\* Python may iterate a set.
RECURSIVE Orders(_)
Orders(S) ==
    IF S = {} THEN {<<>>}
    ELSE UNION {{<<x>> \o o : o \in Orders(S \ {x})} : x \in S}

RECURSIVE SumSeq(_)
SumSeq(s) == IF s = <<>> THEN 0 ELSE s[1] + SumSeq(Tail(s))

RECURSIVE Flatten(_)
Flatten(ss) == IF ss = <<>> THEN <<>> ELSE ss[1] \o Flatten(Tail(ss))

\* sorted(list, key=..., reverse=True) over a list of [item, key] records:
\* Python's sort is stable, and with reverse=True the elements of equal key
\* keep their original order.  Each element is inserted behind the elements
\* whose key is not smaller.
RECURSIVE InsertDesc(_, _)
InsertDesc(sorted, x) ==
    IF sorted = <<>> THEN <<x>>
    ELSE IF sorted[1].key >= x.key THEN <<sorted[1]>> \o InsertDesc(Tail(sorted), x)
    ELSE <<x>> \o sorted

RECURSIVE SortedDescFrom(_, _)
SortedDescFrom(done, rest) ==
    IF rest = <<>> THEN done
    ELSE SortedDescFrom(InsertDesc(done, rest[1]), Tail(rest))

\* sorted(list, key=lambda x: keys[x], reverse=True); keys is the list of the
\* keys of the elements, in the order of the list.
SortedReverse(list, keys) ==
    LET keyed == [i \in DOMAIN list |-> [item |-> list[i], key |-> keys[i]]]
        out == SortedDescFrom(<<>>, keyed)
    IN  [i \in DOMAIN out |-> out[i].item]

\* sorted(list, key=...), ascending and stable: an element is inserted behind
\* the elements whose key is not greater.
RECURSIVE InsertAsc(_, _)
InsertAsc(sorted, x) ==
    IF sorted = <<>> THEN <<x>>
    ELSE IF sorted[1].key <= x.key THEN <<sorted[1]>> \o InsertAsc(Tail(sorted), x)
    ELSE <<x>> \o sorted

RECURSIVE SortedAscFrom(_, _)
SortedAscFrom(done, rest) ==
    IF rest = <<>> THEN done
    ELSE SortedAscFrom(InsertAsc(done, rest[1]), Tail(rest))

SortedByKey(list, keys) ==
    LET keyed == [i \in DOMAIN list |-> [item |-> list[i], key |-> keys[i]]]
        out == SortedAscFrom(<<>>, keyed)
    IN  [i \in DOMAIN out |-> out[i].item]

\* An optional argument: None, or the value given.
None == [given |-> FALSE]
Given(s) == [given |-> TRUE, val |-> s]

\* What a call returned (ReturnedNone: it returned None), or the exception
\* it raised.
Returned(v) == [raised |-> "", none |-> FALSE, val |-> v]
ReturnedNone == [raised |-> "", none |-> TRUE, val |-> <<>>]
Raised(e) == [raised |-> e, none |-> FALSE, val |-> <<>>]

----------------------------------------------------------------------------
(* collections.Counter and itertools *)

\* Counter(s): the histogram of the characters of s.
Counter(s) == [ch \in Range(s) |-> Count(s, ch)]

\* Counter & Counter: the minimum of the counts, letter by letter.
CounterAnd(x, y) ==
    [ch \in DOMAIN x \cap DOMAIN y |-> Min(x[ch], y[ch])]

\* Counter - Counter: the counts subtracted, only positive counts kept.
CounterSub(x, y) ==
    [ch \in {k \in DOMAIN x : x[k] - (IF k \in DOMAIN y THEN y[k] ELSE 0) > 0} |->
        x[ch] - (IF ch \in DOMAIN y THEN y[ch] ELSE 0)]

\* Counter.elements() as a list: each character as many times as its count.
\* Python 2 yields the characters in the order of a dict; the ascending order
\* of the codes stands for it (only sums and sorts by value read the list).
RECURSIVE ElementsFrom(_, _)
ElementsFrom(cnt, chars) ==
    IF chars = {} THEN <<>>
    ELSE LET ch == CHOOSE k \in chars : \A o \in chars : k <= o
         IN  [i \in 1..cnt[ch] |-> ch] \o ElementsFrom(cnt, chars \ {ch})

Elements(cnt) == ElementsFrom(cnt, DOMAIN cnt)

\* itertools.combinations(s, r) as the set of its tuples: the elements at r
\* increasing positions of s.
RECURSIVE Combinations(_, _)
Combinations(s, r) ==
    IF r = 0 THEN {<<>>}
    ELSE IF Len(s) < r THEN {}
    ELSE {<<s[1]>> \o t : t \in Combinations(Tail(s), r - 1)}
         \cup Combinations(Tail(s), r)

\* The orders of the positions 1..n, for the lengths a tile string has.
PositionOrders == [n \in 0..7 |-> Orders(1..n)]

\* itertools.permutations(s) as the set of its tuples: every order of the
\* positions of s.
PermutationsOf(s) == {[i \in DOMAIN s |-> s[o[i]]] : o \in PositionOrders[Len(s)]}

\* str.translate(None, ' '): the characters of s that are no blank.
StripBlanks(s) == SelectSeq(s, LAMBDA ch : ch # Blank)

----------------------------------------------------------------------------
(* WordSet *)

\* WordSet.__getitem__: word_set[w].
Contains(w) == Lower(w) \in word_set

----------------------------------------------------------------------------
(* WordSetHelper: the five searches *)

\* [word for word in possible_word_generator if self[word]].
Recognised(list) == SelectSeq(list, LAMBDA w : Contains(w))

\* swapper: word[:i] + word[i+1] + word[i] + word[i+2:].
Swapper(w, i) ==
    Slice(w, 0, i) \o <<w[i + 2]>> \o <<w[i + 1]>> \o Slice(w, i + 2, Len(w))

\* remover: word[:i] + word[i+1:].
Remover(w, i) == Slice(w, 0, i) \o Slice(w, i + 1, Len(w))

\* alterer(word, i), for the alterer of that name.
Alter(alterer, w, i) ==
    CASE alterer = "swapper" -> Swapper(w, i)
      [] alterer = "remover" -> Remover(w, i)

\* _find_words_by_iterating_alterations(input_word, alterer, xrange(n)): the
\* alterations at the positions 0..n-1 (of Python) that are in the word set.
IteratingAlterations(input_word, alterer, n) ==
    Recognised([k \in 1..Max(n, 0) |-> Alter(alterer, input_word, k - 1)])

\* _find_words_by_swapping.
FindWordsBySwapping(input_word) ==
    IteratingAlterations(input_word, "swapper", Len(input_word) - 1)

\* _find_words_by_removing.
FindWordsByRemoving(input_word) ==
    IteratingAlterations(input_word, "remover", Len(input_word) - 1)

\* A str as a regular expression: each character matches itself.
Literal(w) == [i \in DOMAIN w |-> {w[i]}]

\* r'[a-z]' as a regular expression: one character of the class.
AnyLowercase == <<ascii_lowercase>>

\* adder: word[:i] + exp + word[i:], on regular expressions.
Adder(w, exp, i) == Literal(Slice(w, 0, i)) \o exp \o Literal(Slice(w, i, Len(w)))

\* substituter: word[:i] + exp + word[i+1:], on regular expressions.
Substituter(w, exp, i) ==
    Literal(Slice(w, 0, i)) \o exp \o Literal(Slice(w, i + 1, Len(w)))

\* ' '.join(list).
RECURSIVE JoinWithSpaces(_)
JoinWithSpaces(list) ==
    IF list = <<>> THEN <<>>
    ELSE IF Len(list) = 1 THEN list[1]
    ELSE list[1] \o <<Blank>> \o JoinWithSpaces(Tail(list))

\* word_list of the regex search: " %s " % (' '.join(self.word_set)).
WordListText == <<Blank>> \o JoinWithSpaces(set_order) \o <<Blank>>

\* Whether " (option) " matches text at position pos (1-based): a space, the
\* characters of the option, a space.
OptionMatchesAt(text, pos, option) ==
    /\ pos + Len(option) + 1 <= Len(text)
    /\ text[pos] = Blank
    /\ \A k \in DOMAIN option : text[pos + k] \in option[k]
    /\ text[pos + Len(option) + 1] = Blank

\* re.findall(" (o1|o2|...) ", text) from position pos on: the matches are
\* looked for from left to right, the options are tried in their order, the
\* group is returned, and the search goes on behind the end of the match.
RECURSIVE FindAllFrom(_, _, _)
FindAllFrom(text, pos, options) ==
    IF pos > Len(text) THEN <<>>
    ELSE LET matching == {o \in DOMAIN options : OptionMatchesAt(text, pos, options[o])}
         IN  IF matching = {} THEN FindAllFrom(text, pos + 1, options)
             ELSE LET first == CHOOSE o \in matching : \A q \in matching : o <= q
                      length == Len(options[first])
                  IN  <<SubSeq(text, pos + 1, pos + length)>>
                      \o FindAllFrom(text, pos + length + 2, options)

\* regex_iterator(word, exp, i), for the regex iterator of that name.
RegexIterate(regex_iterator, w, exp, i) ==
    CASE regex_iterator = "adder" -> Adder(w, exp, i)
      [] regex_iterator = "substituter" -> Substituter(w, exp, i)

\* _find_words_by_regex_wildcard_match(input_word, regex_iterator): the
\* options are those of the positions 0..len(input_word) (of Python).
RegexWildcardMatch(input_word, regex_iterator) ==
    LET options == [k \in 1..(Len(input_word) + 1) |->
                        RegexIterate(regex_iterator, input_word, AnyLowercase, k - 1)]
    IN  FindAllFrom(WordListText, 1, options)

\* _find_words_by_adding.
FindWordsByAdding(input_word) == RegexWildcardMatch(input_word, "adder")

\* _find_words_by_substituting.
FindWordsBySubstituting(input_word) == RegexWildcardMatch(input_word, "substituter")

\* sorted(list) of a list of str.
RECURSIVE InsertStr(_, _)
InsertStr(sorted, w) ==
    IF sorted = <<>> THEN <<w>>
    ELSE IF StrLess(w, sorted[1]) THEN <<w>> \o sorted
    ELSE <<sorted[1]>> \o InsertStr(Tail(sorted), w)

RECURSIVE SortedStrFrom(_, _)
SortedStrFrom(done, rest) ==
    IF rest = <<>> THEN done
    ELSE SortedStrFrom(InsertStr(done, rest[1]), Tail(rest))

SortedStr(list) == SortedStrFrom(<<>>, list)

\* list.index(w): the first position (of Python) of w; the list holds w.
IndexOf(list, w) ==
    (CHOOSE i \in DOMAIN list : list[i] = w /\ \A j \in 1..(i - 1) : list[j] # w) - 1

\* _find_closest_words_by_searching, for an input_word whose lowercase form
\* is in the sorted list (any word without uppercase letters).
FindClosestWordsBySearching(input_word) ==
    LET word_list == SortedStr(set_order \o <<input_word>>)
        word_index == IndexOf(word_list, Lower(input_word))
    IN  SelectSeq(Slice(word_list, Max(word_index - 1, 0), word_index + 2),
                  LAMBDA w : w # input_word)

----------------------------------------------------------------------------
(* WordSetHelper.get_alternative_words: the cascade *)

\* search_order, with the remove and the add search exchanged.
SearchOrderAddFirst == <<"swapping", "adding", "removing", "substituting", "searching">>

\* self.search_order, by the names of the searches.
SearchOrder == <<"swapping", "removing", "adding", "substituting", "searching">>

\* search(input_word) for a search of search_order.
Search(name, input_word) ==
    CASE name = "swapping" -> FindWordsBySwapping(input_word)
      [] name = "removing" -> FindWordsByRemoving(input_word)
      [] name = "adding" -> FindWordsByAdding(input_word)
      [] name = "substituting" -> FindWordsBySubstituting(input_word)
      [] name = "searching" -> FindClosestWordsBySearching(input_word)

\* number_of_alternatives = (number_of_words or len(self.word_set)):
\* number_of_words is None ([given |-> FALSE]) or an integer.
NumberOfAlternatives(number_of_words) ==
    IF number_of_words.given /\ number_of_words.val # 0
    THEN number_of_words.val
    ELSE Cardinality(word_set)

\* word_is_unique, were the input word not kept out.
WordIsNew(w, alts, input_word) == \A i \in DOMAIN alts : alts[i] # w

\* word_is_unique = word not in alternatives and word != input_word.
WordIsUnique(w, alts, input_word) ==
    (\A i \in DOMAIN alts : alts[i] # w) /\ w # input_word

\* The locals of a call of get_alternative_words: the list alternatives, how
\* many searches of search_order were called, the words of the last one not
\* yet looped over, and the return once it is reached.
CascadeStart ==
    [alternatives |-> <<>>, search_index |-> 0, found |-> <<>>,
     returned |-> FALSE, ret |-> Returned(<<>>)]

\* One pass of the inner loop body, on the next word of the running search.
CascadeWord(st, input_word, number_of_words) ==
    LET w == Head(st.found)
        alts == IF WordIsUnique(w, st.alternatives, input_word)
                THEN Append(st.alternatives, w)
                ELSE st.alternatives
    IN  IF Len(alts) >= NumberOfAlternatives(number_of_words)
        THEN [st EXCEPT !.alternatives = alts, !.found = Tail(st.found),
                        !.returned = TRUE, !.ret = Returned(alts)]
        ELSE [st EXCEPT !.alternatives = alts, !.found = Tail(st.found)]

\* The outer loop going to the next search of search_order and calling it.
CascadeSearch(st, input_word) ==
    [st EXCEPT !.search_index = st.search_index + 1,
               !.found = Search(SearchOrder[st.search_index + 1], input_word)]

\* The end of the outer loop: return alternatives or None.
CascadeEnd(st) ==
    [st EXCEPT !.returned = TRUE,
               !.ret = IF st.alternatives = <<>> THEN ReturnedNone
                       ELSE Returned(st.alternatives)]

\* The next step of get_alternative_words from the locals st.
CascadeStep(st, input_word, number_of_words) ==
    IF st.found # <<>> THEN CascadeWord(st, input_word, number_of_words)
    ELSE IF st.search_index < Len(SearchOrder) THEN CascadeSearch(st, input_word)
    ELSE CascadeEnd(st)

RECURSIVE CascadeRun(_, _, _)
CascadeRun(st, input_word, number_of_words) ==
    IF st.returned THEN st
    ELSE CascadeRun(CascadeStep(st, input_word, number_of_words), input_word, number_of_words)

\* get_alternative_words(input_word, number_of_words): what it returns.
GetAlternativeWords(input_word, number_of_words) ==
    CascadeRun(CascadeStart, input_word, number_of_words).ret

----------------------------------------------------------------------------
(* WordScrabbleCalculator *)

\* The longest tile string __init__ accepts.
MaxTiles == 7

\* The shortest Scrabble word: the first subset size of get_possible_words.
MinWordLength == 2

\* __init__(word): which TypeError it raises, "" when it raises none.  The
\* argument is [isStr |-> whether type(word) is str, val |-> its characters].
InitError(a) ==
    IF ~a.isStr THEN "String expected."
    ELSE IF \E i \in DOMAIN a.val : a.val[i] \in punctuation \cup digits
         THEN "No punctuation or digits accepted."
    ELSE IF Len(a.val) > MaxTiles THEN "Input length should be 7 or less."
    ELSE ""

\* Whether Python takes available_letters as true: given, and not ''.
Truthy(available_letters) == available_letters.given /\ Len(available_letters.val) > 0

\* The letters _get_score sums the values of: those of the word, cut down to
\* the available ones when available_letters is taken as true.
CountedLetters(w, available_letters) ==
    IF Truthy(available_letters)
    THEN Elements(CounterAnd(Counter(w), Counter(available_letters.val)))
    ELSE w

\* _get_score(word, available_letters): available_letters is
\* [given |-> FALSE] for None, [given |-> TRUE, val |-> str] otherwise.
GetScore(w, available_letters) ==
    LET counted == CountedLetters(w, available_letters)
    IN  SumSeq([i \in DOMAIN counted |-> letter_values[counted[i]]])

\* Whether _get_score raises KeyError: a summed letter is no key of
\* letter_values.
GetScoreRaises(w, available_letters) ==
    LET counted == CountedLetters(w, available_letters)
    IN  \E i \in DOMAIN counted : counted[i] \notin DOMAIN letter_values

\* _get_anagrams(word), as the set of the strings of the list it returns.
GetAnagrams(w) == {p \in PermutationsOf(w) : Contains(p)}

\* string.ascii_lowercase as a str.
AsciiLowercaseStr == [i \in 1..26 |-> 96 + i]

\* itertools.combinations(string.ascii_lowercase, r), for the numbers of
\* blanks of the tile strings drawn.
LetterCombinations == [r \in 1..2 |-> Combinations(AsciiLowercaseStr, r)]

\* input_words of get_possible_words, as a set.
InputWords(tiles) ==
    LET number_of_blanks == Count(tiles, Blank)
        stripped_word == StripBlanks(tiles)
    IN  IF number_of_blanks # 0
        THEN {stripped_word \o letters : letters \in LetterCombinations[number_of_blanks]}
        ELSE {tiles}

\* The subset sizes, were the loop to start at one letter.
SubsetSizesFromOne(w) == 1..Len(w)

\* The subset sizes get_possible_words goes through for one input word.
SubsetSizes(w) == MinWordLength..Len(w)

\* get_possible_words(), as the set its result is the list of.
GetPossibleWords(tiles) ==
    UNION {UNION {UNION {GetAnagrams(combo) : combo \in Combinations(w, i)}
                  : i \in SubsetSizes(w)}
           : w \in InputWords(tiles)}

\* get_suggestions(n), were the sort to lack reverse=True.
GetSuggestionsAscending(possible_words, tiles, n) ==
    LET keys == [i \in DOMAIN possible_words |->
                    GetScore(possible_words[i], Given(tiles))]
    IN  SliceTo(SortedByKey(possible_words, keys), n)

\* get_suggestions(n), for 0 <= n, on the list get_possible_words returned.
GetSuggestions(possible_words, tiles, n) ==
    LET keys == [i \in DOMAIN possible_words |->
                    GetScore(possible_words[i], Given(tiles))]
    IN  SliceTo(SortedReverse(possible_words, keys), n)

----------------------------------------------------------------------------
(* WordScrabbleHelper *)

\* _get_letters_needed(suggestion).
GetLettersNeeded(suggestion, tiles) ==
    Elements(CounterSub(Counter(suggestion), Counter(tiles)))

\* _get_suggestion_score, were the two ends of the range exchanged.
GetSuggestionScoreExchanged(suggestion, tiles) ==
    LET number_of_blanks == Count(tiles, Blank)
        letters_needed == GetLettersNeeded(suggestion, tiles)
        number_of_letters_needed == Len(letters_needed) - number_of_blanks
        values == SortedByKey(letters_needed,
                     [i \in DOMAIN letters_needed |-> letter_values[letters_needed[i]]])
        score_without(x) == GetScore(suggestion, None) - GetScore(x, None)
    IN  IF number_of_blanks = 0
        THEN <<GetScore(suggestion, None)>>
        ELSE <<score_without(SliceTo(values, number_of_letters_needed)),
               score_without(SliceFrom(values, -number_of_letters_needed))>>

\* _get_suggestion_score(suggestion): a tuple of one score, or of the lower
\* and the highest score.
GetSuggestionScore(suggestion, tiles) ==
    LET number_of_blanks == Count(tiles, Blank)
    IN  IF number_of_blanks = 0
        THEN <<GetScore(suggestion, None)>>
        ELSE LET letters_needed == GetLettersNeeded(suggestion, tiles)
                 number_of_letters_needed == Len(letters_needed) - number_of_blanks
                 values == SortedByKey(letters_needed,
                              [i \in DOMAIN letters_needed |-> letter_values[letters_needed[i]]])
                 least_valuable == SliceTo(values, number_of_letters_needed)
                 most_valuable == SliceFrom(values, -number_of_letters_needed)
                 score_without(x) == GetScore(suggestion, None) - GetScore(x, None)
             IN  <<score_without(most_valuable), score_without(least_valuable)>>

\* sorter of get_alternative_suggestions: self._get_suggestion_score(x)[-1].
HighScore(suggestion, tiles) ==
    LET score == GetSuggestionScore(suggestion, tiles)
    IN  score[Len(score)]

\* suggestion_valid, were only the length looked at.
SuggestionValidByLength(x, possible_words) == 1 < Len(x) /\ Len(x) <= MaxTiles

\* suggestion_valid = (x not in possible_words) and (1 < len(x) <= 7).
SuggestionValid(x, possible_words) ==
    (\A i \in DOMAIN possible_words : possible_words[i] # x)
    /\ 1 < Len(x) /\ Len(x) <= MaxTiles

\* self.word_set.get_alternative_words(word) of each of the words: what
\* the generator alternative_words goes through, word after word.
RECURSIVE AlternativeWords(_)
AlternativeWords(words) ==
    IF words = <<>> THEN <<>>
    ELSE <<GetAlternativeWords(words[1], None)>> \o AlternativeWords(Tail(words))

\* What limiter(alternative_words, k) draws from the generator: next() is
\* called k times at most, the alternatives of a word are asked for when the
\* first of them is drawn, and iterating the None of a word without
\* alternatives raises TypeError.
RECURSIVE Limiter(_, _)
Limiter(alternative_words, k) ==
    IF k <= 0 \/ alternative_words = <<>> THEN [raised |-> FALSE, drawn |-> <<>>]
    ELSE LET alts == alternative_words[1]
         IN  IF alts.none THEN [raised |-> TRUE, drawn |-> <<>>]
             ELSE LET here == SliceTo(alts.val, k)
                      rest == Limiter(Tail(alternative_words), k - Len(here))
                  IN  [raised |-> rest.raised, drawn |-> here \o rest.drawn]

\* get_alternative_suggestions(n), for 0 <= n, on the list possible_words
\* that get_possible_words returned to it and the generator over it.
GetAlternativeSuggestions(possible_words, alternative_words, tiles, n) ==
    LET limited == Limiter(alternative_words, 2 * n)
        suggestions == SelectSeq(limited.drawn, LAMBDA x : SuggestionValid(x, possible_words))
        keys == [i \in DOMAIN suggestions |-> HighScore(suggestions[i], tiles)]
    IN  IF limited.raised THEN Raised("TypeError")
        ELSE Returned(SliceTo(SortedReverse(suggestions, keys), n))

----------------------------------------------------------------------------
(* Bounds and the inputs drawn within them *)

\* The longest tile string drawn (beside the strings of LongInputs).
MaxLen == 3

\* The largest n asked of get_suggestions and get_alternative_suggestions.
MaxN == 2

\* The letters the drawn tiles and dictionary words are written in.
Letters == {Chr.a, Chr.b}

\* Every str over chars of a length from lo to hi.
Strings(chars, lo, hi) == UNION {[1..n -> chars] : n \in lo..hi}

\* The sets of at most k elements of S.
RECURSIVE SubsetsUpTo(_, _)
SubsetsUpTo(S, k) ==
    IF k = 0 THEN {{}}
    ELSE LET T == SubsetsUpTo(S, k - 1)
         IN  T \cup {t \cup {x} : t \in T, x \in S}

\* The dictionary words drawn: one to three letters.
Lexicon == Strings(Letters, 1, 3)

\* The dictionaries of word formation: at most two words.
FormDicts == SubsetsUpTo(Lexicon, 2)

\* The tile strings drawn with two blanks (the blanks of a Scrabble set):
\* the two blanks alone or with one letter.
TwoBlankTiles ==
    {t \in Strings(Letters \cup {Blank}, 2, 3) : Count(t, Blank) = 2}

\* The tile strings of word formation that hold letters and blanks only.
FormTiles ==
    {t \in Strings(Letters \cup {Blank}, 0, MaxLen) : Count(t, Blank) <= 1}
    \cup TwoBlankTiles

\* Strings with a character that is no lowercase letter and no blank.
OddChars == {Chr.A, Chr.zero, Chr.bang, Chr.tab}
OddStrings ==
    {t \in Strings({Chr.a} \cup OddChars, 1, 2) : \E i \in DOMAIN t : t[i] \in OddChars}

\* Strings of seven and of eight tiles.
LongStrings == {[i \in 1..n |-> Chr.a] : n \in {MaxTiles, MaxTiles + 1}}

\* What WordScrabbleCalculator(word, word_set) is called on as word: a str, or
\* a value that is no str (its characters are then of no account).
CtorArgs ==
    {[isStr |-> TRUE, val |-> t] : t \in FormTiles \cup OddStrings \cup LongStrings}
    \cup {[isStr |-> FALSE, val |-> <<>>]}

\* One order of the set S, where the order is not read.
SomeOrder(S) == CHOOSE o \in Orders(S) : TRUE

\* A tile string as the validation contract wants it: at most seven
\* characters, lowercase letters and blanks only.
TilesValid(t) ==
    /\ Len(t) <= MaxTiles
    /\ \A i \in DOMAIN t : t[i] \in ascii_lowercase \cup {Blank}

----------------------------------------------------------------------------
(* The calculator: construction on any argument, then one call *)

Init ==
    /\ word_set \in FormDicts
    /\ set_order = SomeOrder(word_set)
    /\ arg \in {[op |-> "__init__", word |-> a] : a \in CtorArgs}
    /\ word = <<>>
    /\ pc = "new"
    /\ ret = Returned(<<>>)
    /\ alternatives = <<>>
    /\ search_index = 0
    /\ found = <<>>

\* WordScrabbleCalculator.__init__(word, word_set): the checks of the
\* argument, in the order of the code, then self.word = word.
Construct ==
    /\ pc = "new"
    /\ IF InitError(arg.word) # ""
       THEN /\ pc' = "rejected"
            /\ ret' = Raised("TypeError")
            /\ word' = word
       ELSE /\ pc' = "ready"
            /\ ret' = Returned(<<>>)
            /\ word' = arg.word.val
    /\ UNCHANGED <<word_set, set_order, arg, alternatives, search_index, found>>

\* get_possible_words(): list(set(possible_words)) is in any order.
CallGetPossibleWords ==
    /\ pc = "ready"
    /\ \E list \in Orders(GetPossibleWords(word)) :
          ret' = Returned(list)
    /\ arg' = [op |-> "get_possible_words"]
    /\ pc' = "returned"
    /\ UNCHANGED <<word_set, set_order, word, alternatives, search_index, found>>

\* get_suggestions(n): the sort key raises KeyError on a character that
\* letter_values does not hold.
CallGetSuggestions ==
    /\ pc = "ready"
    /\ \E list \in Orders(GetPossibleWords(word)) :
          \E n \in 0..MaxN :
             /\ arg' = [op |-> "get_suggestions", n |-> n, possible_words |-> list]
             /\ ret' = IF \E i \in DOMAIN list : GetScoreRaises(list[i], Given(word))
                       THEN Raised("KeyError")
                       ELSE Returned(GetSuggestions(list, word, n))
    /\ pc' = "returned"
    /\ UNCHANGED <<word_set, set_order, word, alternatives, search_index, found>>

Next == Construct \/ CallGetPossibleWords \/ CallGetSuggestions

Spec == Init /\ [][Next]_vars

----------------------------------------------------------------------------
(* Claims on the calculator *)

IsReturn(op) == pc = "returned" /\ arg.op = op

\* A list without repeats.
Distinct(list) == \A i, j \in DOMAIN list : list[i] = list[j] => i = j

\* The dictionary words of two letters or more whose letters, counted, are
\* among the tiles.
ContainedWords(tiles) ==
    {w \in word_set :
        /\ Len(w) >= 2
        /\ \A ch \in Range(w) : Count(w, ch) <= Count(tiles, ch)}

\* C1: on validated tiles without blanks get_possible_words returns exactly
\* the dictionary words of length >= 2 whose letter multiset is contained in
\* the tile multiset, each once.
C1_PossibleWordsAreContainedWords ==
    (IsReturn("get_possible_words") /\ TilesValid(word) /\ Count(word, Blank) = 0)
        => /\ ret.raised = ""
           /\ Distinct(ret.val)
           /\ Range(ret.val) = ContainedWords(word)

\* C1 witness: a word was formed, and a dictionary word written in the
\* letters of the tiles was left out for needing a letter more often than
\* the tiles hold it.
C1_Witness ==
    /\ IsReturn("get_possible_words") /\ TilesValid(word) /\ Count(word, Blank) = 0
    /\ ret.val # <<>>
    /\ \E w \in word_set \ Range(ret.val) :
          Len(w) >= 2 /\ Len(w) <= Len(word) /\ Range(w) \subseteq Range(word)

\* The tile strings got by writing a letter a..z on each blank, each blank
\* on its own.
BlankAssignments(tiles) ==
    LET blanks == {i \in DOMAIN tiles : tiles[i] = Blank}
    IN  {[i \in DOMAIN tiles |-> IF i \in blanks THEN f[i] ELSE tiles[i]] :
            f \in [blanks -> ascii_lowercase]}

\* C2: on tiles with b >= 1 blanks get_possible_words equals the union of
\* get_possible_words over every assignment of a letter a..z to each blank,
\* the blanks chosen independently.
C2_BlanksStandForAnyLetters ==
    (IsReturn("get_possible_words") /\ TilesValid(word) /\ Count(word, Blank) >= 1)
        => Range(ret.val) = UNION {GetPossibleWords(t) : t \in BlankAssignments(word)}

\* C3: get_suggestions(n) returns min(n, |formWords|) distinct words of
\* formWords (the list get_possible_words returned to it), in non-increasing
\* order of score(word, tiles), and no word left out scores strictly higher
\* than a returned one.
C3_SuggestionsAreTheTopN ==
    (IsReturn("get_suggestions") /\ TilesValid(word))
        => LET possible == Range(arg.possible_words)
               out == ret.val
               score(w) == GetScore(w, Given(word))
           IN  /\ ret.raised = ""
               /\ Len(out) = Min(arg.n, Cardinality(possible))
               /\ Distinct(out)
               /\ Range(out) \subseteq possible
               /\ \A i, j \in DOMAIN out : i < j => score(out[i]) >= score(out[j])
               /\ \A w \in possible \ Range(out) :
                     \A i \in DOMAIN out : score(w) <= score(out[i])

\* C3 witness: a call that returned fewer words than can be formed, of which
\* a lower scoring one was left out.
C3_Witness ==
    /\ IsReturn("get_suggestions") /\ TilesValid(word)
    /\ ret.raised = ""
    /\ ret.val # <<>>
    /\ \E w \in Range(arg.possible_words) \ Range(ret.val) :
          GetScore(w, Given(word)) < GetScore(ret.val[1], Given(word))

\* C5: construction is rejected whenever the input is no string, is longer
\* than 7 characters or holds a character that is no lowercase letter and no
\* blank; every tile string an engine holds is 0..7 lowercase letters and
\* blanks.
C5_OnlyValidTilesAreHeld ==
    /\ pc = "ready" => arg.word.isStr /\ TilesValid(arg.word.val)
    /\ pc \in {"ready", "returned"} => TilesValid(word)

\* C2, one blank: with a single blank the union over the 26 letters is what
\* get_possible_words returns.
C2_OneBlankStandsForAnyLetter ==
    (IsReturn("get_possible_words") /\ TilesValid(word) /\ Count(word, Blank) = 1)
        => Range(ret.val) = UNION {GetPossibleWords(t) : t \in BlankAssignments(word)}

----------------------------------------------------------------------------
(* Scoring: _get_score called on a word and on available letters of 0 to 7
   characters, or on none *)

\* 'zebra' and 'ze ra', the word and the tiles of the tests of _get_score.
Zebra == <<Chr.z, 101, Chr.b, 114, Chr.a>>
ZeBlankRa == <<Chr.z, 101, Blank, 114, Chr.a>>

\* A string of seven tiles, the longest, with every drawn character.
SevenTiles == <<Chr.a, Chr.b, Blank, Chr.a, Chr.b, Blank, Chr.a>>

ScoreWords == Strings(Letters \cup {Blank}, 0, MaxLen) \cup {Zebra}

ScoreAvailable ==
    {None}
    \cup {Given(t) : t \in Strings(Letters \cup {Blank}, 0, MaxLen) \cup {ZeBlankRa, SevenTiles}}

InitScore ==
    /\ word_set = {}
    /\ set_order = <<>>
    /\ arg \in {[op |-> "_get_score", word |-> w, available_letters |-> av] :
                    w \in ScoreWords, av \in ScoreAvailable}
    /\ word = <<>>
    /\ pc = "ready"
    /\ ret = Returned(<<>>)
    /\ alternatives = <<>>
    /\ search_index = 0
    /\ found = <<>>

\* _get_score(word, available_letters).
CallGetScore ==
    /\ pc = "ready"
    /\ arg.op = "_get_score"
    /\ ret' = Returned(GetScore(arg.word, arg.available_letters))
    /\ pc' = "returned"
    /\ UNCHANGED <<word_set, set_order, arg, word, alternatives, search_index, found>>

NextScore == CallGetScore

SpecScore == InitScore /\ [][NextScore]_vars

\* The summed values of the letters of w that the letters of available
\* cover: the k-th occurrence of a letter in w counts when available holds
\* the letter at least k times.
CoveredValue(w, available) ==
    SumSeq([i \in DOMAIN w |->
              IF Cardinality({j \in 1..i : w[j] = w[i]}) <= Count(available, w[i])
              THEN letter_values[w[i]] ELSE 0])

\* C4: _get_score(word, available) is a non-negative integer, the sum of the
\* tile values over the multiset intersection of the letters of word and of
\* available, for every supplied available string of length 0 to 7; with none
\* supplied it is the sum of the values of all letters of word.
C4_ScoreIsValueOfAvailableLetters ==
    IsReturn("_get_score")
        => /\ ret.val \in Nat
           /\ arg.available_letters.given
                => ret.val = CoveredValue(arg.word, arg.available_letters.val)
           /\ ~arg.available_letters.given
                => ret.val = SumSeq([i \in DOMAIN arg.word |-> letter_values[arg.word[i]]])

\* C4, available letters not empty: the statement of C4 for the supplied
\* strings of length 1 to 7 and for none supplied.
C4_ScoreOfNonEmptyAvailable ==
    (IsReturn("_get_score")
        /\ (arg.available_letters.given => arg.available_letters.val # <<>>))
        => /\ ret.val \in Nat
           /\ arg.available_letters.given
                => ret.val = CoveredValue(arg.word, arg.available_letters.val)
           /\ ~arg.available_letters.given
                => ret.val = SumSeq([i \in DOMAIN arg.word |-> letter_values[arg.word[i]]])

----------------------------------------------------------------------------
(* The cascade of get_alternative_words, step by step, on a WordSetHelper *)

\* The largest number_of_words asked of get_alternative_words.
MaxLimit == 2

\* The dictionaries of the cascade, each in every order of iteration.
AltDicts == SubsetsUpTo(Lexicon, 2)

\* The words alternatives are asked for.
AltInputs == Strings(Letters, 0, MaxLen)

\* number_of_words: None or 0..MaxLimit.
AltLimits == {None} \cup {Given(n) : n \in 0..MaxLimit}

InitAlt ==
    /\ word_set \in AltDicts
    /\ set_order \in Orders(word_set)
    /\ arg = [op |-> "none"]
    /\ word = <<>>
    /\ pc = "ready"
    /\ ret = Returned(<<>>)
    /\ alternatives = <<>>
    /\ search_index = 0
    /\ found = <<>>

\* The locals of the running call, as the record the steps are defined on.
Locals ==
    [alternatives |-> alternatives, search_index |-> search_index, found |-> found,
     returned |-> FALSE, ret |-> ret]

\* The variables take the locals st; the call has returned when st says so.
Becomes(st) ==
    /\ alternatives' = st.alternatives
    /\ search_index' = st.search_index
    /\ found' = st.found
    /\ ret' = st.ret
    /\ pc' = IF st.returned THEN "returned" ELSE "cascade"
    /\ UNCHANGED <<word_set, set_order, arg, word>>

\* get_alternative_words(input_word, number_of_words) is called.
CallGetAlternativeWords ==
    /\ pc = "ready"
    /\ \E w \in AltInputs, n \in AltLimits :
          arg' = [op |-> "get_alternative_words", input_word |-> w, number_of_words |-> n]
    /\ alternatives' = CascadeStart.alternatives
    /\ search_index' = CascadeStart.search_index
    /\ found' = CascadeStart.found
    /\ ret' = CascadeStart.ret
    /\ pc' = "cascade"
    /\ UNCHANGED <<word_set, set_order, word>>

\* for search in self.search_order: the next search is called.
CascadeNextSearch ==
    /\ pc = "cascade"
    /\ found = <<>>
    /\ search_index < Len(SearchOrder)
    /\ Becomes(CascadeStep(Locals, arg.input_word, arg.number_of_words))

\* for word in search(input_word): the body of the loop on the next word.
CascadeNextWord ==
    /\ pc = "cascade"
    /\ found # <<>>
    /\ Becomes(CascadeStep(Locals, arg.input_word, arg.number_of_words))

\* return alternatives or None, behind the loops.
CascadeExhausted ==
    /\ pc = "cascade"
    /\ found = <<>>
    /\ search_index = Len(SearchOrder)
    /\ Becomes(CascadeStep(Locals, arg.input_word, arg.number_of_words))

NextAlt ==
    \/ CallGetAlternativeWords
    \/ CascadeNextSearch
    \/ CascadeNextWord
    \/ CascadeExhausted

SpecAlt == InitAlt /\ [][NextAlt]_vars

----------------------------------------------------------------------------
(* Claims on the cascade *)

InCascade == arg.op = "get_alternative_words" /\ pc \in {"cascade", "returned"}

\* Dictionary words only, never the input word, no word twice.
CleanAlternatives(list, input_word) ==
    /\ \A i \in DOMAIN list : list[i] \in word_set /\ list[i] # input_word
    /\ Distinct(list)

\* C6: at every point of the cascade of get_alternative_words, and in its
\* result, alternatives holds only members of the dictionary, never the
\* input word, and no word twice.
C6_AlternativesAreClean ==
    InCascade
        => /\ CleanAlternatives(alternatives, arg.input_word)
           /\ pc = "returned" => CleanAlternatives(ret.val, arg.input_word)

\* C6 witness: the cascade holds an alternative and is about to loop over a
\* word that a search found again, or over the input word itself.
C6_Witness ==
    /\ InCascade /\ pc = "cascade"
    /\ alternatives # <<>>
    /\ found # <<>>
    /\ Head(found) \in Range(alternatives) \cup {arg.input_word}

\* The words of list in their order, without the input word and without
\* any repeat of an earlier word.
RECURSIVE FirstOccurrences(_, _, _)
FirstOccurrences(kept, rest, input_word) ==
    IF rest = <<>> THEN kept
    ELSE IF rest[1] = input_word \/ rest[1] \in Range(kept)
         THEN FirstOccurrences(kept, Tail(rest), input_word)
    ELSE FirstOccurrences(Append(kept, rest[1]), Tail(rest), input_word)

\* What the first k steps of the fixed order swap, remove, add, substitute,
\* nearest-by-sort find, one after the other.
StepsFound(input_word, k) ==
    Flatten(SubSeq(<< FindWordsBySwapping(input_word),
                      FindWordsByRemoving(input_word),
                      FindWordsByAdding(input_word),
                      FindWordsBySubstituting(input_word),
                      FindClosestWordsBySearching(input_word) >>, 1, k))

\* The sequence of the claim: the results of the first k steps concatenated,
\* the input word and the repeats dropped.
CascadeSequence(input_word, k) == FirstOccurrences(<<>>, StepsFound(input_word, k), input_word)

\* The list a call returned, None being the result without alternatives.
ResultList == IF ret.none THEN <<>> ELSE ret.val

IsPrefix(s, t) == Len(s) <= Len(t) /\ s = SubSeq(t, 1, Len(s))

\* The number of steps consulted until the sequence has `limit` entries: all
\* five when it never has.
StepsNeeded(input_word, limit) ==
    LET enough == {k \in 1..5 : Len(CascadeSequence(input_word, k)) >= limit}
    IN  IF limit >= 1 /\ enough # {}
        THEN CHOOSE k \in enough : \A j \in enough : k <= j
        ELSE 5

----------------------------------------------------------------------------
(* The helper: an engine on validated tiles and a WordSetHelper, and a call
   of get_alternative_suggestions *)

\* The dictionaries of the helper: at most three words.
HelperDicts == SubsetsUpTo(Lexicon, 3)

\* The tile strings of the helper: letters only, or a blank alone or next
\* to one letter.
HelperTiles ==
    Strings(Letters, 0, MaxLen)
    \cup {t \in Strings(Letters \cup {Blank}, 1, 2) : Count(t, Blank) = 1}

\* A rack of seven tiles, and a dictionary with its two anagrams, a word of
\* seven letters it cannot form and a word of eight letters.
LongTiles == <<Chr.a, Chr.a, Chr.a, Chr.a, Chr.a, Chr.a, Chr.b>>
LongDict ==
    {LongTiles,
     <<Chr.a, Chr.a, Chr.a, Chr.a, Chr.a, Chr.b, Chr.a>>,
     <<Chr.a, Chr.a, Chr.a, Chr.a, Chr.a, Chr.b, Chr.b>>,
     <<Chr.a, Chr.a, Chr.a, Chr.a, Chr.a, Chr.a, Chr.b, Chr.b>>}

InitHelper ==
    /\ \/ word_set \in HelperDicts /\ word \in HelperTiles
       \/ word_set = LongDict /\ word = LongTiles
    /\ set_order \in Orders(word_set)
    /\ arg = [op |-> "none"]
    /\ pc = "ready"
    /\ ret = Returned(<<>>)
    /\ alternatives = <<>>
    /\ search_index = 0
    /\ found = <<>>

\* get_alternative_suggestions(n); the list of get_possible_words is in any
\* order.
CallGetAlternativeSuggestions ==
    /\ pc = "ready"
    /\ \E words \in {SomeOrder(GetPossibleWords(word))} :
       \E looked_up \in {AlternativeWords(words)} :
           \E order \in PositionOrders[Len(words)] :
              \E n \in 0..MaxN :
                 LET possible_words == [i \in DOMAIN words |-> words[order[i]]]
                     alternative_words == [i \in DOMAIN words |-> looked_up[order[i]]]
                 IN  /\ arg' = [op |-> "get_alternative_suggestions", n |-> n,
                                possible_words |-> possible_words,
                                alternative_words |-> alternative_words]
                     /\ ret' = GetAlternativeSuggestions(possible_words, alternative_words, word, n)
    /\ pc' = "returned"
    /\ UNCHANGED <<word_set, set_order, word, alternatives, search_index, found>>

NextHelper == CallGetAlternativeSuggestions

SpecHelper == InitHelper /\ [][NextHelper]_vars

----------------------------------------------------------------------------
(* Claims on get_alternative_suggestions *)

\* The words limiter drew from the generator in the call that returned.
Drawn == Limiter(arg.alternative_words, 2 * arg.n).drawn

\* C8: every word returned by get_alternative_suggestions(n) is none of the
\* words get_possible_words() returned for the same tiles, and has between 2
\* and 7 letters.
C8_SuggestionsAreNewAndPlayable ==
    (IsReturn("get_alternative_suggestions") /\ ret.raised = "") =>
        \A i \in DOMAIN ret.val :
            /\ ret.val[i] \notin Range(arg.possible_words)
            /\ Len(ret.val[i]) >= 2
            /\ Len(ret.val[i]) <= 7

\* A call returned a suggestion after a makeable word and a word of more than
\* seven letters were drawn and left out.
C8_Witness ==
    /\ IsReturn("get_alternative_suggestions")
    /\ ret.raised = ""
    /\ ret.val # <<>>
    /\ \E i \in DOMAIN Drawn : Drawn[i] \in Range(arg.possible_words)
    /\ \E i \in DOMAIN Drawn : Len(Drawn[i]) > 7

\* The pool: the alternatives of every makeable word, a word without
\* alternatives adding nothing.
Pool ==
    Flatten([i \in DOMAIN arg.alternative_words |->
                IF arg.alternative_words[i].none THEN <<>>
                ELSE arg.alternative_words[i].val])

\* The qualifying alternatives of the pool: not makeable, 2 to 7 letters.
Qualifying ==
    SelectSeq(Pool, LAMBDA x : x \notin Range(arg.possible_words)
                                /\ Len(x) >= 2 /\ Len(x) <= 7)

\* C9: get_alternative_suggestions(n) returns the n qualifying alternatives
\* of highest high-score out of the pool of the alternatives of every
\* makeable word: min(n, number of qualifying pooled alternatives) entries,
\* in non-increasing high-score order, no left-out qualifying alternative
\* scoring strictly higher than a returned one.
C9_SuggestionsAreTheTopOfThePool ==
    (IsReturn("get_alternative_suggestions") /\ ret.raised = "") =>
        /\ Len(ret.val) = Min(arg.n, Len(Qualifying))
        /\ Range(ret.val) \subseteq Range(Qualifying)
        /\ \A i, j \in DOMAIN ret.val :
              i < j => HighScore(ret.val[i], word) >= HighScore(ret.val[j], word)
        /\ \A x \in Range(Qualifying) \ Range(ret.val) :
              \A i \in DOMAIN ret.val : HighScore(x, word) <= HighScore(ret.val[i], word)

\* The same on the words limiter drew, the first 2n of the pool at most
\* (holds).
C9_SuggestionsAreTheTopOfTheDrawn ==
    (IsReturn("get_alternative_suggestions") /\ ret.raised = "") =>
        LET drawn == SelectSeq(Drawn, LAMBDA x : x \notin Range(arg.possible_words)
                                                  /\ Len(x) >= 2 /\ Len(x) <= 7)
        IN  /\ Len(ret.val) = Min(arg.n, Len(drawn))
            /\ Range(ret.val) \subseteq Range(drawn)
            /\ \A i, j \in DOMAIN ret.val :
                  i < j => HighScore(ret.val[i], word) >= HighScore(ret.val[j], word)
            /\ \A x \in Range(drawn) \ Range(ret.val) :
                  \A i \in DOMAIN ret.val : HighScore(x, word) <= HighScore(ret.val[i], word)

----------------------------------------------------------------------------
(* The score range of a suggestion: an engine on tiles, and a call of
   _get_suggestion_score *)

\* The letters of the suggestions scored: worth 1, 3 and 2.
RangeLetters == {Chr.a, Chr.b, Chr.d}

\* The tiles 'ebr ' of the repository's test, which scores 'zebra' on them.
EbrBlank == <<101, Chr.b, 114, Blank>>

RangeTiles == Strings(Letters \cup {Blank}, 0, MaxLen) \cup {EbrBlank}

RangeSuggestions == Strings(RangeLetters, 1, MaxLen) \cup {Zebra}

InitRange ==
    /\ word_set = {}
    /\ set_order = <<>>
    /\ word \in RangeTiles
    /\ arg \in {[op |-> "_get_suggestion_score", suggestion |-> x] : x \in RangeSuggestions}
    /\ pc = "ready"
    /\ ret = Returned(<<>>)
    /\ alternatives = <<>>
    /\ search_index = 0
    /\ found = <<>>

CallGetSuggestionScore ==
    /\ pc = "ready"
    /\ arg.op = "_get_suggestion_score"
    /\ ret' = Returned(GetSuggestionScore(arg.suggestion, word))
    /\ pc' = "returned"
    /\ UNCHANGED <<word_set, set_order, arg, word, alternatives, search_index, found>>

NextRange == CallGetSuggestionScore

SpecRange == InitRange /\ [][NextRange]_vars

\* The letters of the suggestion the tiles lack, each as often as it lacks.
LettersNeeded(suggestion, tiles) ==
    SelectSeq([i \in DOMAIN suggestion |->
                 IF Cardinality({j \in 1..i : suggestion[j] = suggestion[i]})
                       > Count(tiles, suggestion[i])
                 THEN suggestion[i] ELSE Blank],
              LAMBDA ch : ch # Blank)

\* The summed values of the k least valuable of the letters, or of all of
\* them when there are k or fewer.
RECURSIVE LeastValue(_, _)
LeastValue(letters, k) ==
    IF k = 0 \/ letters = <<>> THEN 0
    ELSE LET i == CHOOSE i \in DOMAIN letters :
                     \A j \in DOMAIN letters :
                        letter_values[letters[i]] <= letter_values[letters[j]]
         IN  letter_values[letters[i]]
             + LeastValue(SubSeq(letters, 1, i - 1) \o SubSeq(letters, i + 1, Len(letters)), k - 1)

\* The summed values of the k most valuable of the letters, or of all.
MostValue(letters, k) ==
    SumSeq([i \in DOMAIN letters |-> letter_values[letters[i]]])
    - LeastValue(letters, Max(Len(letters) - k, 0))

\* C10: on tiles with b >= 1 blanks _get_suggestion_score(suggestion) returns
\* (low, high), high being the score of the suggestion less the values of the
\* b least valuable letters needed, low that score less the values of the b
\* most valuable letters needed, all the letters needed when they are b or
\* fewer.
C10_RangeCoversAsManyLettersAsBlanks ==
    (IsReturn("_get_suggestion_score") /\ Count(word, Blank) >= 1) =>
        LET b == Count(word, Blank)
            needed == LettersNeeded(arg.suggestion, word)
            score == SumSeq([i \in DOMAIN arg.suggestion |-> letter_values[arg.suggestion[i]]])
        IN  ret.val = <<score - MostValue(needed, b), score - LeastValue(needed, b)>>

\* The same when the letters needed are twice the blanks, as in the
\* repository's test (holds).
C10_RangeWhenNeededIsTwiceTheBlanks ==
    (/\ IsReturn("_get_suggestion_score")
     /\ Count(word, Blank) >= 1
     /\ Len(LettersNeeded(arg.suggestion, word)) = 2 * Count(word, Blank)) =>
        LET b == Count(word, Blank)
            needed == LettersNeeded(arg.suggestion, word)
            score == SumSeq([i \in DOMAIN arg.suggestion |-> letter_values[arg.suggestion[i]]])
        IN  ret.val = <<score - MostValue(needed, b), score - LeastValue(needed, b)>>

\* What the code returns: the letters taken off are as many as the letters
\* needed outnumber the blanks, and all of them for the low score when they
\* are as many as the blanks (holds while the blanks do not outnumber them).
C10_RangeCoversTheLettersBeyondTheBlanks ==
    (/\ IsReturn("_get_suggestion_score")
     /\ Count(word, Blank) >= 1
     /\ Len(LettersNeeded(arg.suggestion, word)) >= Count(word, Blank)) =>
        LET needed == LettersNeeded(arg.suggestion, word)
            k == Len(needed) - Count(word, Blank)
            score == SumSeq([i \in DOMAIN arg.suggestion |-> letter_values[arg.suggestion[i]]])
        IN  ret.val = <<score - MostValue(needed, IF k = 0 THEN Len(needed) ELSE k),
                        score - LeastValue(needed, k)>>

\* The two ends of the range returned: of a tuple of one score both are
\* that score.
RangeLow == ret.val[1]
RangeHigh == ret.val[Len(ret.val)]

\* C11, as claimed: lowScore <= highScore, and lowScore = highScore if and
\* only if the tiles hold no blank.
C11_RangeIsAPointIffNoBlank ==
    IsReturn("_get_suggestion_score") =>
        /\ RangeLow <= RangeHigh
        /\ (RangeLow = RangeHigh) <=> (Count(word, Blank) = 0)

\* C11, amended: lowScore <= highScore, and with no blank the range is the
\* single value score(suggestion); the two ends differ only on tiles with a
\* blank.
C11_RangeIsOrderedAndAPointWithoutBlank ==
    IsReturn("_get_suggestion_score") =>
        /\ RangeLow <= RangeHigh
        /\ Count(word, Blank) = 0 =>
              ret.val = <<SumSeq([i \in DOMAIN arg.suggestion |->
                                    letter_values[arg.suggestion[i]]])>>
        /\ RangeLow < RangeHigh => Count(word, Blank) >= 1

\* A range of two different ends was returned on tiles with a blank.
C11_Witness ==
    /\ IsReturn("_get_suggestion_score")
    /\ Count(word, Blank) >= 1
    /\ RangeLow < RangeHigh

\* C12: get_alternative_suggestions(n) never ends in an error: with no
\* makeable word it returns an empty sequence, and a makeable word for which
\* get_alternative_words finds nothing adds nothing to a sequence that is
\* still returned.
C12_SuggestionsNeverRaise ==
    IsReturn("get_alternative_suggestions") =>
        /\ ret.raised = ""
        /\ arg.possible_words = <<>> => ret.val = <<>>

\* The same while limiter stops before the generator reaches a makeable word
\* without alternatives (holds).
C12_SuggestionsRaiseOnlyOnNone ==
    IsReturn("get_alternative_suggestions") =>
        /\ ret.raised \in {"", "TypeError"}
        /\ ret.raised = "TypeError" =>
              \E i \in DOMAIN arg.alternative_words : arg.alternative_words[i].none
        /\ arg.possible_words = <<>> => ret = Returned(<<>>)

\* C17: the sequence get_alternative_suggestions(n) returns holds no word
\* more than once, also when get_alternative_words gives the same alternative
\* for several makeable words.
C17_SuggestionsAreDistinct ==
    (IsReturn("get_alternative_suggestions") /\ ret.raised = "") => Distinct(ret.val)

\* The same when one word at most is makeable, the alternatives of one word
\* being without repeats (holds).
C17_SuggestionsOfOneWordAreDistinct ==
    (/\ IsReturn("get_alternative_suggestions")
     /\ ret.raised = ""
     /\ Len(arg.possible_words) <= 1) => Distinct(ret.val)

----------------------------------------------------------------------------
(* The searches of WordSetHelper, each called on its own *)

InitSearch ==
    /\ word_set \in HelperDicts
    /\ set_order \in Orders(word_set)
    /\ arg = [op |-> "none"]
    /\ word = <<>>
    /\ pc = "ready"
    /\ ret = Returned(<<>>)
    /\ alternatives = <<>>
    /\ search_index = 0
    /\ found = <<>>

\* One of the searches is called on input_word and returns its list.
CallSearch(name) ==
    /\ pc = "ready"
    /\ \E input_word \in AltInputs :
          /\ arg' = [op |-> name, input_word |-> input_word]
          /\ ret' = Returned(Search(name, input_word))
    /\ pc' = "returned"
    /\ UNCHANGED <<word_set, set_order, word, alternatives, search_index, found>>

CallFindWordsBySwapping == CallSearch("swapping")
CallFindWordsByRemoving == CallSearch("removing")
CallFindWordsByAdding == CallSearch("adding")
CallFindWordsBySubstituting == CallSearch("substituting")
CallFindClosestWordsBySearching == CallSearch("searching")

NextSearch ==
    \/ CallFindWordsBySwapping
    \/ CallFindWordsByRemoving
    \/ CallFindWordsByAdding
    \/ CallFindWordsBySubstituting
    \/ CallFindClosestWordsBySearching

SpecSearch == InitSearch /\ [][NextSearch]_vars

\* The input word without the letter at each of the given positions (from
\* 1), those that are dictionary words, in the order of the positions.
RemovalsAt(input_word, positions) ==
    SelectSeq([i \in 1..Len(input_word) |->
                  IF i \in positions
                  THEN SubSeq(input_word, 1, i - 1) \o SubSeq(input_word, i + 1, Len(input_word))
                  ELSE <<Blank>>],
              LAMBDA w : w \in word_set)

\* C13: _find_words_by_removing returns, in the order of the positions, every
\* dictionary word got by deleting the letter at one position of the input
\* word, the last position included.
C13_RemoveTriesEveryPosition ==
    IsReturn("removing") =>
        ret.val = RemovalsAt(arg.input_word, 1..Len(arg.input_word))

\* The same for every position but the last (holds).
C13_RemoveTriesEveryPositionButTheLast ==
    IsReturn("removing") =>
        ret.val = RemovalsAt(arg.input_word, 1..(Len(arg.input_word) - 1))

\* The dictionary words got by inserting one letter a..z at one of the
\* len+1 gaps of the input word.
OneLetterAdded(input_word) ==
    {w \in word_set :
        /\ Len(w) = Len(input_word) + 1
        /\ Range(w) \subseteq ascii_lowercase
        /\ \E i \in 1..Len(w) :
              SubSeq(w, 1, i - 1) \o SubSeq(w, i + 1, Len(w)) = input_word}

\* C14: _find_words_by_adding returns exactly the dictionary words got by
\* inserting one letter a..z at one of the len+1 gaps of the input word, in
\* whatever order the words of the dictionary are joined.
C14_AddFindsEveryInsertion ==
    IsReturn("adding") => Range(ret.val) = OneLetterAdded(arg.input_word)

\* The same, for the words found only: each is such a dictionary word, none
\* is found twice, and one at least is found when there is one (holds).
C14_AddFindsInsertionsOnly ==
    IsReturn("adding") =>
        /\ Range(ret.val) \subseteq OneLetterAdded(arg.input_word)
        /\ Distinct(ret.val)
        /\ OneLetterAdded(arg.input_word) # {} => ret.val # <<>>

\* The dictionary words of the length of the input word that agree with it
\* at every position but one at most.
OneLetterReplaced(input_word) ==
    {w \in word_set :
        /\ Len(w) = Len(input_word)
        /\ Range(w) \subseteq ascii_lowercase
        /\ Cardinality({i \in DOMAIN w : w[i] # input_word[i]}) <= 1}

\* C15: _find_words_by_substituting returns exactly the dictionary words of
\* the length of the input word that agree with it at every position but one
\* at most, and no word of another length.
C15_SubstituteFindsEveryReplacement ==
    IsReturn("substituting") => Range(ret.val) = OneLetterReplaced(arg.input_word)

\* The words found are such words, or the input word with one letter put
\* behind it (holds).
C15_SubstituteFindsReplacementsAndAppendings ==
    IsReturn("substituting") =>
        Range(ret.val) \subseteq
            OneLetterReplaced(arg.input_word)
            \cup {w \in word_set : /\ Len(w) = Len(arg.input_word) + 1
                                   /\ SubSeq(w, 1, Len(arg.input_word)) = arg.input_word}

\* The greatest dictionary word strictly smaller than the input word and
\* the smallest strictly greater, each when there is one, in that order.
SortedNeighbours(input_word) ==
    LET smaller == {w \in word_set : StrLess(w, input_word)}
        greater == {w \in word_set : StrLess(input_word, w)}
        before == {w \in smaller : \A v \in smaller : v = w \/ StrLess(v, w)}
        after == {w \in greater : \A v \in greater : v = w \/ StrLess(w, v)}
    IN  (IF before = {} THEN <<>> ELSE <<CHOOSE w \in before : TRUE>>)
        \o (IF after = {} THEN <<>> ELSE <<CHOOSE w \in after : TRUE>>)

\* C16: _find_closest_words_by_searching returns, whether or not the input
\* word is in the dictionary, the greatest dictionary word strictly smaller
\* than it and the smallest strictly greater, each when it exists, and
\* nothing else.
C16_SearchFindsBothNeighbours ==
    IsReturn("searching") => ret.val = SortedNeighbours(arg.input_word)

\* The same for an input word that is not in the dictionary; for one that
\* is, the smaller neighbour alone is returned (holds).
C16_SearchFindsNeighboursOfANewWord ==
    IsReturn("searching") =>
        IF arg.input_word \notin word_set
        THEN ret.val = SortedNeighbours(arg.input_word)
        ELSE ret.val = SelectSeq(SortedNeighbours(arg.input_word),
                                 LAMBDA w : StrLess(w, arg.input_word))

====
